---- MODULE Spec2Model ----
(***************************************************************************)
(* A model of the pomodoro terminal timer (src/src/lib.rs): the Clock, the *)
(* StateTracker and the PomodoroSession that drives them from the menu     *)
(* through the work and break countdown loops.                             *)
(*                                                                         *)
(* Three specifications share the variables:                               *)
(*   Spec         the session, from init() to its return, a panic or a     *)
(*                sleep that never ends;                                   *)
(*   SpecTracker  the StateTracker alone, its methods applied in any order *)
(*                to a fresh tracker (as the unit tests of lib.rs do);     *)
(*   SpecClock    the Clock alone: set_time_minutes, then                  *)
(*                decrement_one_second applied repeatedly.                 *)
(*                                                                         *)
(* Option<T> is a sequence of length at most one: None is <<>>, Some(x) is *)
(* <<x>>.  Times are in milliseconds, as in the code.  The u64 arithmetic  *)
(* of the code is modelled on the integers with the overflow cases made    *)
(* explicit: a build with overflow checks (debug) panics, a build without  *)
(* (release) wraps modulo 2^64.                                            *)
(***************************************************************************)
EXTENDS Integers, Sequences, FiniteSets, TLC

VARIABLES
    pc,             \* where the control thread is
    overflow_checks, \* the build's overflow checks: "on" (debug: an overflow
                    \* panics) or "off" (release: it wraps); fixed for a run,
                    \* "unobserved" until the run's first overflow shows it
    config,         \* PomodoroConfig: work_time, short_break_time, long_break_time
    stdin,          \* bytes typed and not yet read (termion's async_stdin channel)
    current_order,  \* StateTracker.current_order : Option<i32>
    current_state,  \* StateTracker.current_state : PomodoroState
    started_at,     \* StateTracker.started_at : Option<Instant>; the Instant is
                    \* held as the time elapsed since it (all the code reads of it)
    clock,          \* Clock: [minutes, seconds]
    sent,           \* history: notifications shown since the last set_work_state
    ticks,          \* history: decrement_one_second calls since the clock was last set
    hist            \* history of the calls made by SpecTracker and SpecClock

vars == <<pc, overflow_checks, config, stdin, current_order, current_state,
          started_at, clock, sent, ticks, hist>>

----------------------------------------------------------------------------
(* Bounds of the model *)

\* most bytes waiting unread in stdin
MaxQueue == 2
\* most StateTracker calls in one run of SpecTracker
MaxOps == 7
\* largest argument of set_time_minutes in SpecClock
MaxMinutes == 61
\* most decrement_one_second calls after one set_time_minutes in SpecClock
MaxTicks == 62

----------------------------------------------------------------------------
(* Option<T> *)

None == <<>>
Some(x) == <<x>>
IsSome(o) == o # <<>>
unwrap(o) == o[1]

----------------------------------------------------------------------------
(* StateTracker, lib.rs 445-497 *)

\* mutant: the cycle is reset after 4 instead of wrapping to 1
increment_cycle_reset(order) ==
    IF IsSome(order) /\ unwrap(order) < 4 THEN Some(unwrap(order) + 1)
    ELSE IF IsSome(order) THEN None
    ELSE Some(1)

increment_cycle(order) ==
    IF IsSome(order) /\ unwrap(order) < 4 THEN Some(unwrap(order) + 1)
    ELSE Some(1)

\* mutant: order 1 stays 1 instead of going back to None
decrement_cycle_floor(order) ==
    IF IsSome(order) /\ unwrap(order) > 1 THEN Some(unwrap(order) - 1)
    ELSE Some(1)

decrement_cycle(order) ==
    IF IsSome(order) /\ unwrap(order) > 1 THEN Some(unwrap(order) - 1)
    ELSE IF IsSome(order) /\ unwrap(order) = 1 THEN None
    ELSE Some(1)

\* mutant: the long break comes after order 3
break_state_off_by_one(order) ==
    IF IsSome(order) /\ unwrap(order) \in 0..2 THEN "ShortBreak"
    ELSE IF IsSome(order) /\ unwrap(order) \in 3..4 THEN "LongBreak"
    ELSE "None"

\* the state set_break_state stores in current_state
break_state(order) ==
    IF IsSome(order) /\ unwrap(order) \in 0..3 THEN "ShortBreak"
    ELSE IF IsSome(order) /\ unwrap(order) = 4 THEN "LongBreak"
    ELSE "None"

----------------------------------------------------------------------------
(* Clock, lib.rs 517-582 *)

\* 2^64 - 1000, the value time_in_ms -= 1000 wraps to from 0, is out of the
\* range of the model's integers; set_time_ms of it is these two fields:
\* ((2^64 - 1000) / 60000) % 60 and ((2^64 - 1000) / 1000) % 60.
WrappedMinutes == 25
WrappedSeconds == 50

set_time_ms(ms) ==
    [minutes |-> (ms \div (1000 * 60)) % 60, seconds |-> (ms \div 1000) % 60]

set_time_minutes(minutes) == set_time_ms(minutes * 60000)

get_ms_from_time(c) == (c.minutes * 60000) + (c.seconds * 1000)

\* whether time_in_ms -= 1000 underflows
decrement_underflows(c) == get_ms_from_time(c) < 1000

\* mutant: two seconds are taken off per call
decrement_two_seconds(c) ==
    IF get_ms_from_time(c) < 2000
    THEN [minutes |-> WrappedMinutes, seconds |-> WrappedSeconds]
    ELSE set_time_ms(get_ms_from_time(c) - 2000)

\* the clock after decrement_one_second where it does not panic
decrement_one_second(c) ==
    IF decrement_underflows(c)
    THEN [minutes |-> WrappedMinutes, seconds |-> WrappedSeconds]
    ELSE set_time_ms(get_ms_from_time(c) - 1000)

\* a decimal digit as a character
Digit(d) == <<"0", "1", "2", "3", "4", "5", "6", "7", "8", "9">>[d + 1]

\* format!("{:02}", n) for n < 100, as a sequence of characters
Pad2(n) == <<Digit(n \div 10), Digit(n % 10)>>

\* get_time: "MM:SS"
get_time(c) == Pad2(c.minutes) \o <<":">> \o Pad2(c.seconds)

----------------------------------------------------------------------------
(* The state as one value, so that the methods of PomodoroSession compose  *)
(* as they call each other in the code.                                    *)

Self ==
    [pc |-> pc, overflow_checks |-> overflow_checks, config |-> config,
     stdin |-> stdin, current_order |-> current_order,
     current_state |-> current_state, started_at |-> started_at,
     clock |-> clock, sent |-> sent, ticks |-> ticks]

Become(s) ==
    /\ pc' = s.pc
    /\ overflow_checks' = s.overflow_checks
    /\ config' = s.config
    /\ stdin' = s.stdin
    /\ current_order' = s.current_order
    /\ current_state' = s.current_state
    /\ started_at' = s.started_at
    /\ clock' = s.clock
    /\ sent' = s.sent
    /\ ticks' = s.ticks

\* a panic unwinds out of init(): the process aborts
panic(s) == [s EXCEPT !.pc = "panicked"]

\* the settings of the overflow checks this run may still turn out to have
Checks(s) ==
    IF s.overflow_checks = "unobserved" THEN {"on", "off"} ELSE {s.overflow_checks}

----------------------------------------------------------------------------
(* StateTracker methods on the session state *)

\* mutant: every work period is given slot 1
set_work_state_first_slot(s) ==
    [s EXCEPT !.started_at = Some(0),
              !.current_state = "Working",
              !.current_order = Some(1),
              !.sent = <<>>]

\* lines 478-484
set_work_state(s) ==
    [s EXCEPT !.started_at = Some(0),
              !.current_state = "Working",
              !.current_order = increment_cycle(@),
              !.sent = <<>>]

set_break_state(s) == [s EXCEPT !.current_state = break_state(s.current_order)]

----------------------------------------------------------------------------
(* Clock methods on the session state *)

\* self.clock.decrement_one_second() in a build whose overflow checks are chk
clock_decrement(s, chk) ==
    IF decrement_underflows(s.clock)
    THEN IF chk = "on"
         THEN panic([s EXCEPT !.overflow_checks = chk])
         ELSE [s EXCEPT !.clock = decrement_one_second(@),
                        !.ticks = @ + 1,
                        !.overflow_checks = chk]
    ELSE [s EXCEPT !.clock = decrement_one_second(@), !.ticks = @ + 1]

\* self.clock.set_time_minutes(minutes)
clock_set_minutes(s, minutes) ==
    [s EXCEPT !.clock = set_time_minutes(minutes), !.ticks = 0]

----------------------------------------------------------------------------
(* PomodoroSession, lib.rs 126-433 *)

\* The places of the control thread:
\*   "start_menu"    display_menu(Some(POMODORO_START_PROMPT)) waits for a command
\*   "menu"          display_menu(None) waits for a command
\*   "work_sleep"    head of the loop of countdown_work, before its sleep
\*   "work_listen"   countdown_work after the sleep, before the first poll
\*   "work_listen2"  countdown_work before its second poll
\*   "break_sleep"   head of the loop of countdown_break, before its sleep
\*   "break_listen"  countdown_break after the sleep, before the poll
\*   "done"          init() has returned
\*   "panicked"      a panic (overflow check, unwrap) has aborted the process
\*   "asleep"        in a sleep() of about 2^64 ms
Menus == {"start_menu", "menu"}
Sleeps == {"work_sleep", "break_sleep"}
Listens == {"work_listen", "work_listen2", "break_listen"}
Ended == {"done", "panicked", "asleep"}

\* the keys a user types: the three commands and one other key
Keys == {"s", "r", "q", "x"}

\* buf = [0]; self.stdin.read(&mut buf): the byte in buf[0] after the read
\* ("NUL" when nothing was waiting), and what is left in stdin
read_byte(s) == IF s.stdin = <<>> THEN "NUL" ELSE Head(s.stdin)
after_read(s) == [s EXCEPT !.stdin = IF @ = <<>> THEN @ ELSE Tail(@)]

\* mutant: the quit key is not matched by the poll
async_command_no_quit(byte) ==
    CASE byte = "r" -> "Reset"
      [] OTHER -> "None"

\* the match of async_command_listen
async_command(byte) ==
    CASE byte = "r" -> "Reset"
      [] byte = "q" -> "Quit"
      [] OTHER -> "None"

\* the match of wait_for_next_command; "continue" reads again
menu_command(byte) ==
    CASE byte = "s" -> "Start"
      [] byte = "r" -> "Reset"
      [] byte = "q" -> "Quit"
      [] OTHER -> "continue"

\* mutant: begin_cycle without its display_menu(None): the session ends
begin_cycle_no_menu(s) == [s EXCEPT !.pc = "done"]

\* start_work() has returned to begin_cycle, directly or through the returns
\* of countdown, countdown_work, start_break, countdown_break and
\* reset_current_pomodoro (each a call in tail position): display_menu(None)
back_to_menu(s) == [s EXCEPT !.pc = "menu"]

\* mutant: a display_menu that returns is followed by another menu
session_return_to_menu(s) == [s EXCEPT !.pc = "menu"]

\* display_menu has returned; every display_menu is the last call of start()
\* or of begin_cycle, itself the last call of a display_menu: init() finishes
session_return(s) == [s EXCEPT !.pc = "done"]

countdown(s) ==
    CASE s.current_state = "Working" -> [s EXCEPT !.pc = "work_sleep"]
      [] s.current_state \in {"ShortBreak", "LongBreak"} -> [s EXCEPT !.pc = "break_sleep"]
      [] OTHER -> back_to_menu(s)

\* the duration countdown passes to countdown_break
break_duration(s) ==
    IF s.current_state = "ShortBreak" THEN s.config.short_break_time
    ELSE s.config.long_break_time

start_work(s) == countdown(clock_set_minutes(set_work_state(s), s.config.work_time))

\* mutant: the slot is taken back and the work period is not begun again
reset_current_pomodoro_no_start(s) ==
    back_to_menu([s EXCEPT !.current_order = decrement_cycle(@)])

\* lines 145-148
reset_current_pomodoro(s) ==
    start_work([s EXCEPT !.current_order = decrement_cycle(@)])

short_break(s) == countdown(clock_set_minutes(s, s.config.short_break_time))

long_break(s) == countdown(clock_set_minutes(s, s.config.long_break_time))

start_break(s) ==
    CASE s.current_state = "ShortBreak" -> short_break(s)
      [] s.current_state = "LongBreak" -> long_break(s)
      [] OTHER -> back_to_menu(s)

\* mutant: the notification is shown twice
notify_twice(s, summary, shown) ==
    IF shown THEN [s EXCEPT !.sent = Append(Append(@, summary), summary)]
    ELSE panic(s)

\* Notification::new()...show().unwrap(): shown, or a panic when show() fails
notify(s, summary, shown) ==
    IF shown THEN [s EXCEPT !.sent = Append(@, summary)] ELSE panic(s)

\* draw_work_screen / draw_break_screen: draw_work_count unwraps current_order;
\* the redraw (and whatever else delays the thread in this iteration beyond
\* the sleep it asked for) takes `delay` ms of wall-clock time
draw_screen(s, delay) ==
    IF s.current_order = None THEN panic(s)
    ELSE [s EXCEPT !.started_at = Some(unwrap(@) + delay)]

\* the tail of a countdown_work iteration after its polls: lines 195-211
work_tick(s, chk, delay, shown) ==
    LET d == clock_decrement(s, chk)
        w == IF d.pc = "panicked" THEN d ELSE draw_screen(d, delay)
    IN  IF w.pc = "panicked" THEN w
        ELSE IF get_ms_from_time(w.clock) = 0
        THEN LET n == notify(w, "Pomodoro Break!", shown)
             IN  IF n.pc = "panicked" THEN n ELSE start_break(set_break_state(n))
        ELSE [w EXCEPT !.pc = "work_sleep"]

\* the tail of a countdown_break iteration after its poll: lines 266-280
break_tick(s, chk, delay, shown) ==
    LET d == clock_decrement(s, chk)
        w == IF d.pc = "panicked" THEN d ELSE draw_screen(d, delay)
    IN  IF w.pc = "panicked" THEN w
        ELSE IF get_ms_from_time(w.clock) = 0
        THEN LET n == notify(w, "Pomodoro Break Over", shown)
             IN  IF n.pc = "panicked" THEN n ELSE back_to_menu(n)
        ELSE [w EXCEPT !.pc = "break_sleep"]

\* clock_elapsed of countdown_work and of countdown_break, on the integers
work_clock_elapsed(s) == (s.config.work_time * 60000) - get_ms_from_time(s.clock)

break_clock_elapsed(s) ==
    (break_duration(s) * 60000) - get_ms_from_time(s.clock)
        + (s.config.work_time * 60000)

\* whether one of the u64 subtractions up to 1000 - sync_offset underflows:
\* `budget - clock` inside clock_elapsed, true_elapsed - clock_elapsed,
\* 1000 - sync_offset
sleep_underflows(s, budget, clock_elapsed) ==
    \/ budget * 60000 < get_ms_from_time(s.clock)
    \/ unwrap(s.started_at) < clock_elapsed
    \/ unwrap(s.started_at) - clock_elapsed > 1000

\* lines 168-183 and 242-258: the sleep of one iteration.  Wrapping
\* arithmetic agrees with the integers modulo 2^64, so where a subtraction
\* wraps the duration is 1000 - sync_offset itself when that is not negative
\* and 2^64 less its magnitude (more than 500 million years) otherwise.
sleep_step(s, budget, clock_elapsed, chk, listen) ==
    LET true_elapsed == unwrap(s.started_at)
        sync_offset == true_elapsed - clock_elapsed
        millis == 1000 - sync_offset
        woken == [s EXCEPT !.started_at = Some(true_elapsed + millis), !.pc = listen]
    IN  IF s.started_at = None THEN panic(s)
        ELSE IF ~sleep_underflows(s, budget, clock_elapsed) THEN woken
        ELSE IF chk = "on" THEN panic([s EXCEPT !.overflow_checks = chk])
        ELSE IF millis >= 0 THEN [woken EXCEPT !.overflow_checks = chk]
        ELSE [s EXCEPT !.overflow_checks = chk, !.pc = "asleep"]

\* mutant: the Quit arm of the poll does not return
listen_step_quit_goes_on(s, passed) ==
    LET command == async_command(read_byte(s))
    IN  CASE command = "Reset" -> reset_current_pomodoro(after_read(s))
          [] OTHER -> passed

\* mutant: the Reset arm of the poll does nothing
listen_step_reset_goes_on(s, passed) ==
    LET command == async_command(read_byte(s))
    IN  CASE command = "Quit" -> back_to_menu(after_read(s))
          [] OTHER -> passed

\* lines 185-189 and 260-264: the poll that acts on Quit and Reset; `passed`
\* is the state in which the iteration goes on after any other result
listen_step(s, passed) ==
    LET command == async_command(read_byte(s))
    IN  CASE command = "Quit" -> back_to_menu(after_read(s))
          [] command = "Reset" -> reset_current_pomodoro(after_read(s))
          [] OTHER -> passed

\* lines 191-193: the second poll of countdown_work, which acts on Quit only
listen_quit_step(s, passed) ==
    LET command == async_command(read_byte(s))
    IN  IF command = "Quit" THEN back_to_menu(after_read(s)) ELSE passed

\* begin_cycle up to the point where it waits
begin_cycle(s) == start_work(s)

\* one read of wait_for_next_command and the match of display_menu on it
menu_step(s) ==
    LET command == menu_command(read_byte(s))
        r == after_read(s)
    IN  CASE command = "Start" -> begin_cycle(r)
          [] command = "Quit" -> session_return(r)
          [] command = "Reset" -> session_return(r)
          [] OTHER -> r

----------------------------------------------------------------------------
(* StateTracker::new, Clock::new and a configuration, for the initial states *)

DefaultConfig == [work_time |-> 25, short_break_time |-> 5, long_break_time |-> 20]

InitFresh ==
    /\ overflow_checks = "unobserved"
    /\ stdin = <<>>
    /\ current_order = None
    /\ current_state = "None"
    /\ started_at = None
    /\ clock = [minutes |-> 0, seconds |-> 0]
    /\ sent = <<>>
    /\ ticks = 0
    /\ hist = <<>>

----------------------------------------------------------------------------
(* SpecTracker: the methods of a fresh StateTracker, called in any order *)

Logged(op, s) == [op |-> op, order |-> s.current_order, state |-> s.current_state]

InitTracker == InitFresh /\ pc = "tracker" /\ config = DefaultConfig

TrackerCall(op, s) ==
    /\ pc = "tracker"
    /\ Len(hist) < MaxOps
    /\ Become(s)
    /\ hist' = Append(hist, Logged(op, s))

TrackerSetWorkState == TrackerCall("set_work_state", set_work_state(Self))

TrackerDecrementCycle ==
    TrackerCall("decrement_cycle",
                [Self EXCEPT !.current_order = decrement_cycle(@)])

TrackerSetBreakState == TrackerCall("set_break_state", set_break_state(Self))

NextTracker ==
    \/ TrackerSetWorkState
    \/ TrackerDecrementCycle
    \/ TrackerSetBreakState

SpecTracker == InitTracker /\ [][NextTracker]_vars

----------------------------------------------------------------------------
(* SpecClock: set_time_minutes on a new Clock, then decrement_one_second *)

InitClock == InitFresh /\ pc = "clock" /\ config = DefaultConfig

ClockSetMinutes ==
    /\ pc = "clock"
    /\ \E m \in 0..MaxMinutes :
        /\ Become(clock_set_minutes(Self, m))
        /\ hist' = <<[op |-> "set_time_minutes", arg |-> m]>>

ClockDecrement ==
    /\ pc = "clock"
    /\ ticks < MaxTicks
    /\ \E chk \in Checks(Self) : Become(clock_decrement(Self, chk))
    /\ UNCHANGED hist

NextClock ==
    \/ ClockSetMinutes
    \/ ClockDecrement

SpecClock == InitClock /\ [][NextClock]_vars

----------------------------------------------------------------------------
(* Claims about the StateTracker, checked under SpecTracker *)

Slots == {Some(n) : n \in 1..4}

\* the order in force before the i-th logged call
OrderBefore(i) == IF i = 1 THEN None ELSE hist[i - 1].order

\* the slot that follows a slot, counting 1,2,3,4,1,...
SlotAfter(order) == IF order = None THEN 1 ELSE (unwrap(order) % 4) + 1

OnlyWorkCalls == \A i \in 1..Len(hist) : hist[i].op = "set_work_state"

\* C1: every set_work_state advances the slot by exactly one, wrapping 4 -> 1
\* and never leaving it None or outside 1..4; on a fresh tracker successive
\* calls give 1,2,3,4,1,...
C1_BeginWorkAdvancesSlot ==
    /\ \A i \in 1..Len(hist) :
         hist[i].op = "set_work_state" =>
            /\ hist[i].order \in Slots
            /\ hist[i].order = Some(SlotAfter(OrderBefore(i)))
            /\ hist[i].state = "Working"
    /\ OnlyWorkCalls =>
         \A i \in 1..Len(hist) : hist[i].order = Some(((i - 1) % 4) + 1)

\* five calls on a fresh tracker have given 1,2,3,4,1
C1_Witness ==
    /\ Len(hist) >= 5
    /\ \A i \in 1..5 : hist[i].op = "set_work_state"
    /\ [i \in 1..5 |-> hist[i].order] = <<Some(1), Some(2), Some(3), Some(4), Some(1)>>

\* the i-th and (i+1)-th calls are a reset: decrement_cycle, then set_work_state
ResetAt(i) ==
    /\ hist[i].op = "decrement_cycle"
    /\ hist[i + 1].op = "set_work_state"

\* C3: from every slot n in 1..4, decrement_cycle (n > 1 to n - 1, 1 to None)
\* followed by set_work_state gives slot n again
C3_ResetKeepsSlot ==
    \A i \in 2..(Len(hist) - 1) :
        (ResetAt(i) /\ hist[i - 1].order \in Slots) =>
            /\ hist[i].order = IF unwrap(hist[i - 1].order) > 1
                               THEN Some(unwrap(hist[i - 1].order) - 1)
                               ELSE None
            /\ hist[i + 1].order = hist[i - 1].order

\* a reset has been made at slot 1 (through None) and one at slot 3
C3_Witness ==
    /\ \E i \in 2..(Len(hist) - 1) :
         ResetAt(i) /\ hist[i - 1].order = Some(1) /\ hist[i].order = None
                    /\ hist[i + 1].order = Some(1)
    /\ \E i \in 2..(Len(hist) - 1) :
         ResetAt(i) /\ hist[i - 1].order = Some(3) /\ hist[i + 1].order = Some(3)

----------------------------------------------------------------------------
(* Claims about the Clock, checked under SpecClock *)

\* the minutes last given to set_time_minutes
MinutesSet == hist[1].arg

\* C4: after set_time_minutes(1), 60 calls of decrement_one_second leave 0 ms,
\* and a further call at zero is a no-op: no underflow, no wrapped value, no
\* abort
C4_DecrementAtZeroIsNoOp ==
    (hist # <<>> /\ MinutesSet = 1 /\ ticks >= 60) =>
        /\ pc # "panicked"
        /\ get_ms_from_time(clock) = 0

\* C5: after set_time_minutes(m) the clock reads back m * 60000 ms for every
\* m >= 0, and for m < 60 it renders as "mm:00"
C5_SetMinutesRoundTrip ==
    (pc = "clock" /\ hist # <<>> /\ ticks = 0) =>
        /\ get_ms_from_time(clock) = MinutesSet * 60000
        /\ MinutesSet < 60 =>
             get_time(clock) = Pad2(MinutesSet) \o <<":", "0", "0">>

----------------------------------------------------------------------------
(* Spec: the session *)

\* the configurations (-w, -s, -l) of the model, in minutes
Configs ==
    { [work_time |-> 1, short_break_time |-> 1, long_break_time |-> 2],
      [work_time |-> 2, short_break_time |-> 1, long_break_time |-> 1],
      [work_time |-> 0, short_break_time |-> 1, long_break_time |-> 1],
      [work_time |-> 1, short_break_time |-> 0, long_break_time |-> 1],
      [work_time |-> 1, short_break_time |-> 1, long_break_time |-> 0] }

\* the wall-clock time, in ms, that one iteration of a countdown loop may
\* take beyond the sleep it asked for
Delays == {0, 500, 1500}

\* init() and start(): a fresh tracker and clock, the start prompt on screen
Init ==
    /\ InitFresh
    /\ pc = "start_menu"
    /\ config \in Configs

\* the user types a key; the reader thread of async_stdin queues it
KeyPressStep ==
    /\ pc \notin Ended
    /\ Len(stdin) < MaxQueue
    /\ \E key \in Keys : stdin' = Append(stdin, key)
    /\ UNCHANGED <<pc, overflow_checks, config, current_order, current_state,
                   started_at, clock, sent, ticks>>

\* wait_for_next_command reads a byte (a read that finds none reads again)
MenuReadStep ==
    /\ pc \in Menus
    /\ stdin # <<>>
    /\ Become(menu_step(Self))

WorkSleepStep ==
    /\ pc = "work_sleep"
    /\ \E chk \in Checks(Self) :
         Become(sleep_step(Self, config.work_time, work_clock_elapsed(Self),
                           chk, "work_listen"))

WorkListenStep ==
    /\ pc = "work_listen"
    /\ Become(listen_step(Self, [after_read(Self) EXCEPT !.pc = "work_listen2"]))

WorkListenAgainStep ==
    /\ pc = "work_listen2"
    /\ \E chk \in Checks(Self), delay \in Delays, shown \in BOOLEAN :
         Become(listen_quit_step(Self,
                    work_tick(after_read(Self), chk, delay, shown)))

BreakSleepStep ==
    /\ pc = "break_sleep"
    /\ \E chk \in Checks(Self) :
         Become(sleep_step(Self, break_duration(Self), break_clock_elapsed(Self),
                           chk, "break_listen"))

BreakListenStep ==
    /\ pc = "break_listen"
    /\ \E chk \in Checks(Self), delay \in Delays, shown \in BOOLEAN :
         Become(listen_step(Self,
                    break_tick(after_read(Self), chk, delay, shown)))

\* the steps of the session, with nothing recorded beside them
KeyPress == KeyPressStep /\ UNCHANGED hist
MenuRead == MenuReadStep /\ UNCHANGED hist
WorkSleep == WorkSleepStep /\ UNCHANGED hist
WorkListen == WorkListenStep /\ UNCHANGED hist
WorkListenAgain == WorkListenAgainStep /\ UNCHANGED hist
BreakSleep == BreakSleepStep /\ UNCHANGED hist
BreakListen == BreakListenStep /\ UNCHANGED hist

Next ==
    \/ KeyPress
    \/ MenuRead
    \/ WorkSleep
    \/ WorkListen
    \/ WorkListenAgain
    \/ BreakSleep
    \/ BreakListen

Spec == Init /\ [][Next]_vars

----------------------------------------------------------------------------
(* Claims about the session, checked under Spec *)

WorkPcs == {"work_sleep", "work_listen", "work_listen2"}
BreakPcs == {"break_sleep", "break_listen"}

\* this step is a read of stdin that takes the key off it
ReadsKey(key) == stdin # <<>> /\ Head(stdin) = key /\ stdin' = Tail(stdin)

\* the break that belongs to a slot
BreakOf(order) == IF unwrap(order) = 4 THEN "LongBreak" ELSE "ShortBreak"

\* C2: set_break_state gives ShortBreak at slots 1, 2, 3 and LongBreak at
\* slot 4, so every break of a session follows a work period at a slot in
\* 1..4 and is short after 1, 2, 3 and long after 4
C2_BreakFollowsSlot ==
    /\ \A n \in 1..3 : break_state(Some(n)) = "ShortBreak"
    /\ break_state(Some(4)) = "LongBreak"
    /\ pc \in BreakPcs =>
         /\ current_order \in Slots
         /\ current_state = BreakOf(current_order)

\* a long break is running after the work period at slot 4
C2_Witness ==
    /\ pc = "break_listen"
    /\ current_order = Some(4)
    /\ current_state = "LongBreak"
    /\ sent = <<"Pomodoro Break!">>

MinutesBelow60 == 1..59

\* the configured length of the phase the session is in
PhaseMinutes ==
    IF pc \in WorkPcs THEN config.work_time ELSE break_duration(Self)

Max(a, b) == IF a >= b THEN a ELSE b

\* drift = true_elapsed - logical_elapsed at the head of a countdown loop
Drift ==
    unwrap(started_at)
      - (IF pc = "work_sleep" THEN work_clock_elapsed(Self)
         ELSE break_clock_elapsed(Self))

\* C6: a work phase of W minutes (1 <= W < 60) that is not ended by a key ends
\* after exactly 60*W ticks with the clock at zero, shows one break-ready
\* notification and enters the break of its slot; that break of B minutes
\* ends after exactly 60*B ticks, shows one break-over notification and
\* leaves the session at the menu.  A phase is cut short without a key only
\* by an iteration that overran by more than a second (the unclamped sleep)
\* or by a notification that could not be shown on its last tick.
C6_PhasesLastSixtyTicksAMinute ==
    /\ [](/\ (pc \in WorkPcs /\ config.work_time \in MinutesBelow60) =>
               /\ (ticks * 1000) + get_ms_from_time(clock) = config.work_time * 60000
               /\ get_ms_from_time(clock) >= 1000
          /\ (pc \in BreakPcs /\ break_duration(Self) \in MinutesBelow60) =>
               /\ (ticks * 1000) + get_ms_from_time(clock) = break_duration(Self) * 60000
               /\ get_ms_from_time(clock) >= 1000)
    /\ [][(/\ pc \in WorkPcs
           /\ pc' \notin (WorkPcs \cup {"panicked", "asleep"})
           /\ ~ReadsKey("q")
           /\ config.work_time \in MinutesBelow60) =>
              /\ pc = "work_listen2"
              /\ ticks + 1 = 60 * config.work_time
              /\ decrement_one_second(clock) = [minutes |-> 0, seconds |-> 0]
              /\ sent' = <<"Pomodoro Break!">>
              /\ current_state' = BreakOf(current_order)
              /\ current_order' = current_order
              /\ pc' = "break_sleep"
              /\ clock' = set_time_minutes(break_duration(Self'))
              /\ ticks' = 0]_vars
    /\ [][(/\ pc \in BreakPcs
           /\ pc' \notin (BreakPcs \cup WorkPcs \cup {"panicked", "asleep"})
           /\ ~ReadsKey("q")
           /\ break_duration(Self) \in MinutesBelow60) =>
              /\ ticks + 1 = 60 * break_duration(Self)
              /\ clock' = [minutes |-> 0, seconds |-> 0]
              /\ sent' = <<"Pomodoro Break!", "Pomodoro Break Over">>
              /\ pc' = "menu"]_vars
    /\ [][(/\ pc \in (WorkPcs \cup BreakPcs)
           /\ pc' \in {"panicked", "asleep"}
           /\ PhaseMinutes \in MinutesBelow60) =>
              \/ pc \in Sleeps /\ Drift > 1000
              \/ pc \in {"work_listen2", "break_listen"}
                   /\ ticks + 1 = 60 * PhaseMinutes
                   /\ sent' = sent]_vars

\* the first pomodoro of a session of 1-minute phases is over: 60 ticks of
\* work at slot 1, 60 ticks of short break, both notifications, the menu
C6_Witness ==
    /\ pc = "menu"
    /\ config.work_time = 1
    /\ config.short_break_time = 1
    /\ current_order = Some(1)
    /\ current_state = "ShortBreak"
    /\ ticks = 60
    /\ get_ms_from_time(clock) = 0
    /\ sent = <<"Pomodoro Break!", "Pomodoro Break Over">>
    /\ stdin = <<>>

\* C7: every iteration of a countdown loop sleeps max(0, 1000 - drift) ms (an
\* overrun shortens the next sleep, clamped at zero), and the clock then
\* shows exactly one second less than on the previous tick
C7_SleepIsClampedAtZero ==
    /\ [][(pc \in Sleeps /\ pc' # pc) =>
             /\ pc' \in Listens
             /\ unwrap(started_at') - unwrap(started_at) = Max(0, 1000 - Drift)]_vars
    /\ [][(/\ pc \in Listens
           /\ pc' \in Sleeps
           /\ ticks' = ticks + 1
           /\ get_ms_from_time(clock) >= 1000) =>
             get_ms_from_time(clock') = get_ms_from_time(clock) - 1000]_vars

\* C8 as claimed: a Quit waiting in stdin when the poll after the sleep runs,
\* whatever was typed before it, ends the phase at that poll with no further
\* decrement of the clock
C8_QuitBehindOtherBytes ==
    [][(/\ pc \in {"work_listen", "break_listen"}
        /\ \E i \in 1..Len(stdin) : stdin[i] = "q"
        /\ pc' # pc) =>
           /\ pc' = "menu"
           /\ clock' = clock]_vars

\* C8, amended: a Quit that is the first unread byte when a poll of either
\* countdown loop runs is read and honoured by that poll: the phase ends
\* there, with no further decrement of the clock; a poll reads one byte
C8_QuitAtHeadHonoured ==
    /\ [][(pc \in Listens /\ stdin # <<>> /\ Head(stdin) = "q" /\ pc' # pc) =>
              /\ pc' = "menu"
              /\ stdin' = Tail(stdin)
              /\ clock' = clock
              /\ ticks' = ticks]_vars
    /\ [][(pc \in Listens /\ stdin # <<>> /\ pc' # pc) =>
              stdin' = Tail(stdin)]_vars

\* a short break was ended by a Quit: the menu, with time left on the clock
C8_Witness ==
    /\ pc = "menu"
    /\ current_state = "ShortBreak"
    /\ get_ms_from_time(clock) > 0
    /\ ticks > 0

\* C9: a Quit observed in a countdown leads back to the menu, where Start
\* begins the next work period and Quit ends the session
C9_QuitLeadsToMenu ==
    [][/\ (pc \in Listens /\ ReadsKey("q")) => pc' = "menu"
       /\ (pc = "menu" /\ ReadsKey("s")) =>
             /\ pc' = "work_sleep"
             /\ current_state' = "Working"
             /\ current_order' = Some(SlotAfter(current_order))
             /\ clock' = set_time_minutes(config.work_time)
       /\ (pc \in Menus /\ ReadsKey("q")) => pc' = "done"]_vars

\* a work period was ended by a Quit and the session waits at the menu, where
\* a Start has been typed
C9_Witness ==
    /\ pc = "menu"
    /\ current_state = "Working"
    /\ get_ms_from_time(clock) > 0
    /\ stdin = <<"s">>

\* C10 as claimed: a Quit observed by the poll of a countdown terminates the
\* session, with no further command awaited
C10_QuitInPhaseTerminates ==
    [][(pc \in Listens /\ ReadsKey("q")) => pc' = "done"]_vars

\* C10, amended: a Quit observed by the poll of a countdown exits the phase at
\* once, leaving clock, tracker and notifications as they were, and returns
\* to the menu where a further command is awaited; the session ends only on
\* a command read at a menu
C10_QuitInPhaseReturnsToMenu ==
    [][/\ (pc \in Listens /\ ReadsKey("q")) =>
             /\ pc' = "menu"
             /\ UNCHANGED <<clock, ticks, sent, current_order, current_state,
                            started_at>>
       /\ (pc # "done" /\ pc' = "done") =>
             /\ pc \in Menus
             /\ stdin # <<>>
             /\ Head(stdin) \in {"q", "r"}]_vars

\* a long break was ended by a Quit and the session is at the menu, not ended
C10_Witness ==
    /\ pc = "menu"
    /\ current_state = "LongBreak"
    /\ get_ms_from_time(clock) > 0

----------------------------------------------------------------------------
(* SpecLog: the session of Spec with a record kept beside it of the last    *)
(* command a read acted on and of the last work period that ran to zero     *)

Breaks == {"ShortBreak", "LongBreak"}

\* the command this step reads and acts on: the match of display_menu at a
\* menu, the match on the first poll in a countdown loop, Quit alone on the
\* second poll of countdown_work; "None" when the step acts on no command
Acted ==
    IF stdin = <<>> \/ stdin' # Tail(stdin) THEN "None"
    ELSE IF pc \in Menus
    THEN (IF Head(stdin) = "x" THEN "None" ELSE menu_command(Head(stdin)))
    ELSE IF pc = "work_listen2"
    THEN (IF Head(stdin) = "q" THEN "Quit" ELSE "None")
    ELSE IF pc \in Listens THEN async_command(Head(stdin))
    ELSE "None"

NoEntry == [last |-> "None", final |-> FALSE, completed |-> None]

Entry == IF hist = <<>> THEN NoEntry ELSE hist[1]

\* the record after this step: `last` is the last command acted on, `final`
\* whether it was a Reset read with the clock of a phase on its last second,
\* `completed` the slot of the last work period that went on to its break
NewEntry ==
    [last |-> IF Acted = "None" THEN Entry.last ELSE Acted,
     final |-> IF Acted = "None" THEN Entry.final
               ELSE /\ Acted = "Reset"
                    /\ pc \in Listens
                    /\ get_ms_from_time(clock) = 1000,
     completed |-> IF pc = "work_listen2" /\ current_state' \in Breaks
                   THEN current_order
                   ELSE Entry.completed]

Logging == hist' = IF NewEntry = Entry THEN hist ELSE <<NewEntry>>

LogKeyPress == KeyPressStep /\ Logging
LogMenuRead == MenuReadStep /\ Logging
LogWorkSleep == WorkSleepStep /\ Logging
LogWorkListen == WorkListenStep /\ Logging
LogWorkListenAgain == WorkListenAgainStep /\ Logging
LogBreakSleep == BreakSleepStep /\ Logging
LogBreakListen == BreakListenStep /\ Logging

NextLog ==
    \/ LogKeyPress
    \/ LogMenuRead
    \/ LogWorkSleep
    \/ LogWorkListen
    \/ LogWorkListenAgain
    \/ LogBreakSleep
    \/ LogBreakListen

\* init() with -w 1 -s 1 -l 1
InitLog ==
    /\ InitFresh
    /\ pc = "start_menu"
    /\ config = [work_time |-> 1, short_break_time |-> 1, long_break_time |-> 1]

SpecLog == InitLog /\ [][NextLog]_vars

----------------------------------------------------------------------------
(* Claims about the session, checked under Spec and SpecLog *)

\* this step is the tail of a countdown iteration on which the clock's last
\* second elapses: the step that shows the notification of the phase
LastTick ==
    /\ pc \in {"work_listen2", "break_listen"}
    /\ get_ms_from_time(clock) = 1000
    /\ ~ReadsKey("q")
    /\ ~ReadsKey("r")
    /\ pc' # pc

\* C11: a notification that cannot be shown does not abort the session: after
\* break-ready the session is in the break, after break-over at the menu, as
\* when the notification is shown
C11_NotificationFailureSwallowed ==
    [][LastTick =>
          /\ pc' # "panicked"
          /\ pc = "work_listen2" => pc' = "break_sleep"
          /\ pc = "break_listen" => pc' = "menu"]_vars

\* C12: a phase configured with 0 minutes is entered with the clock at zero
\* and completes without the clock being decremented below zero and without
\* an arithmetic underflow: the first iteration that is not ended by a key
\* takes the session on to the break (work) or to the menu (break)
C12_ZeroLengthPhaseCompletes ==
    [][(/\ pc \in {"work_listen2", "break_listen"}
        /\ PhaseMinutes = 0
        /\ get_ms_from_time(clock) = 0
        /\ ~ReadsKey("q")
        /\ ~ReadsKey("r")
        /\ pc' # pc) =>
           /\ overflow_checks' = overflow_checks
           /\ get_ms_from_time(clock') <= 60000 * Max(config.short_break_time,
                                                      config.long_break_time)
           /\ pc = "work_listen2" => pc' = "break_sleep"
           /\ pc = "break_listen" => pc' = "menu"]_vars

\* C13: an iteration of a countdown loop polls once, after the sleep and
\* before the decrement: a Reset that a poll reads restarts the work period,
\* a Quit that a poll reads ends the phase, and between that poll and the
\* decrement no further byte is taken from the input
C13_NoCommandReadAndDiscarded ==
    [][/\ (pc \in Listens /\ ReadsKey("r")) =>
             /\ pc' = "work_sleep"
             /\ ticks' = 0
             /\ started_at' = Some(0)
       /\ (pc \in Listens /\ ReadsKey("q")) => pc' = "menu"
       /\ (pc = "work_listen2" /\ pc' # pc) => stdin' = stdin]_vars

\* C14: a Reset that a poll reads during a work period or a break at slot n
\* puts the session at once at the head of a work period at the same slot n,
\* with the clock at the full work length and started_at stamped anew, and
\* shows no notification
C14_ResetReentersWorkAtSameSlot ==
    [][(pc \in Listens /\ ReadsKey("r")) =>
          /\ pc' = "work_sleep"
          /\ current_state' = "Working"
          /\ current_order' = current_order
          /\ clock' = set_time_minutes(config.work_time)
          /\ started_at' = Some(0)
          /\ ticks' = 0
          /\ Len(sent') <= Len(sent)]_vars

\* the slot after slot n in the cycle 1, 2, 3, 4, 1, ...; 1 after none
NextSlot(order) == IF order = None \/ order = Some(4) THEN Some(1)
                   ELSE Some(unwrap(order) + 1)

\* C15: the phase leaves Idle only to Working, a break is entered only from
\* Working on the tick that takes the work clock to zero, and the work
\* periods that run to zero do so at slots 1, 2, 3, 4, 1, ... in this order
C15_CompletedWorkCyclesSlots ==
    [][/\ (current_state = "None" /\ current_state' # "None") =>
             current_state' = "Working"
       /\ (current_state' \in Breaks /\ current_state' # current_state) =>
             /\ pc = "work_listen2"
             /\ current_state = "Working"
             /\ get_ms_from_time(clock) = 1000
       /\ (pc = "work_listen2" /\ current_state' \in Breaks) =>
             current_order = NextSlot(Entry.completed)]_vars

\* C15 as the code has it: the phase leaves Idle only to Working, a break is
\* entered only from Working on the tick that takes the work clock to zero,
\* and every work period begun from the menu takes the slot after the slot
\* of the work period before it, whether or not that one ran to zero, so a
\* work period that runs to zero is at most a whole cycle of Starts after
\* the last one that did, at any slot of 1..4
C15_StartedWorkCyclesSlots ==
    [][/\ (current_state = "None" /\ current_state' # "None") =>
             current_state' = "Working"
       /\ (current_state' \in Breaks /\ current_state' # current_state) =>
             /\ pc = "work_listen2"
             /\ current_state = "Working"
             /\ get_ms_from_time(clock) = 1000
             /\ current_state' = BreakOf(current_order)
             /\ current_order' = current_order
       /\ Acted = "Start" =>
             /\ current_order' = NextSlot(current_order)
             /\ current_state' = "Working"
       /\ (pc = "work_listen2" /\ current_state' \in Breaks) =>
             current_order \in Slots]_vars

\* a work period has run to zero at slot 3 right after the one at slot 1 did:
\* the work period at slot 2 was quit
C15_Witness ==
    /\ hist # <<>>
    /\ Entry.completed = Some(3)
    /\ current_order = Some(3)
    /\ current_state = "ShortBreak"
    /\ pc = "break_sleep"
    /\ ticks = 0

\* C16: started_at is stamped with the current time when a work period and
\* when a break begins, and is None whenever the session waits at a menu
C16_StartedAtClearedBetweenPhases ==
    /\ [](pc \in Menus => started_at = None)
    /\ [][(pc' = "work_sleep" /\ pc \notin WorkPcs) => started_at' = Some(0)]_vars
    /\ [][(pc' = "break_sleep" /\ pc \notin BreakPcs) => started_at' = Some(0)]_vars

\* C17: the slot is None only while no work period has been started (it is
\* not None after a long break either, so the claim's second case never
\* arises), and once a work period has begun no step, a Reset at slot 1
\* included, leaves the slot at None
C17_SlotNoneOnlyBeforeFirstWork ==
    /\ [](current_order = None =>
             /\ current_state = "None"
             /\ started_at = None
             /\ Entry.last # "Start"
             /\ Entry.completed = None
             /\ pc \in {"start_menu", "done"})
    /\ [][current_order # None => current_order' \in Slots]_vars

\* a Reset was acted on during the work period at slot 1, before any work
\* period ran to zero: the work period has begun again at slot 1
C17_Witness ==
    /\ hist # <<>>
    /\ Entry.last = "Reset"
    /\ Entry.completed = None
    /\ current_order = Some(1)
    /\ current_state = "Working"
    /\ pc = "work_sleep"
    /\ ticks = 0

\* the first poll of an iteration, made with one second left on the clock
\* and a Reset first in the input
ResetOnLastSecond ==
    /\ pc \in {"work_listen", "break_listen"}
    /\ get_ms_from_time(clock) = 1000
    /\ ReadsKey("r")

\* C18: with a Reset waiting on the tick that takes the clock's last second,
\* the phase is not begun again: the clock goes to zero and the session goes
\* on to the break or to the menu
C18_CompletionCheckedBeforeReset ==
    [][ResetOnLastSecond =>
          /\ ~(pc' = "work_sleep" /\ ticks' = 0)
          /\ pc = "break_listen" => get_ms_from_time(clock') = 0 /\ pc' = "menu"
          /\ pc = "work_listen" => pc' = "work_listen2"]_vars

\* C18 as the code has it: the poll comes before the decrement, so a Reset
\* that is first in the input at the poll of the last tick always begins the
\* work period again at the same slot, with no notification; only a Reset
\* that the second poll of countdown_work reads is dropped, and that tick
\* takes the clock to zero and ends the work period
C18_ResetBeforeCompletion ==
    /\ [][ResetOnLastSecond =>
             /\ pc' = "work_sleep"
             /\ ticks' = 0
             /\ clock' = set_time_minutes(config.work_time)
             /\ current_state' = "Working"
             /\ current_order' = current_order
             /\ started_at' = Some(0)
             /\ sent' = <<>>
             /\ overflow_checks' = overflow_checks]_vars
    /\ [][(/\ pc = "work_listen2"
           /\ get_ms_from_time(clock) = 1000
           /\ ReadsKey("r")) =>
             /\ get_ms_from_time(clock') = 0 \/ pc' = "break_sleep"
             /\ pc' \in {"break_sleep", "panicked"}
             /\ pc' = "break_sleep" => sent' = <<"Pomodoro Break!">>]_vars

\* a Reset was acted on with one second left of the break after the work
\* period at slot 2: the work period at slot 2 has begun again
C18_Witness ==
    /\ hist # <<>>
    /\ Entry.last = "Reset"
    /\ Entry.final
    /\ Entry.completed = Some(2)
    /\ current_order = Some(2)
    /\ current_state = "Working"
    /\ pc = "work_sleep"
    /\ ticks = 0
    /\ sent = <<>>

\* C19: a Reset read at a menu leaves the session at that menu, waiting for
\* Start or Quit, and the session ends from a menu only on a Quit
C19_ResetAtMenuIgnored ==
    [][/\ (pc \in Menus /\ ReadsKey("r")) => pc' = pc
       /\ (pc \in Menus /\ pc' = "done") => ReadsKey("q")]_vars

\* clock_elapsed at the head of the countdown loop the session is in, on the
\* integers; the u64 the code computes is this value when it is not negative
\* and 2^64 more when it is
ClockElapsed ==
    IF pc = "work_sleep" THEN work_clock_elapsed(Self)
    ELSE break_clock_elapsed(Self)

\* C20: at the head of every iteration of a countdown loop, for durations
\* below 60 minutes, true_elapsed is at least clock_elapsed, so that
\* true_elapsed - clock_elapsed does not underflow
C20_TrueElapsedAtLeastClockElapsed ==
    (/\ pc \in Sleeps
     /\ config.work_time < 60
     /\ config.short_break_time < 60
     /\ config.long_break_time < 60) =>
        /\ started_at # None
        /\ ClockElapsed >= 0
        /\ unwrap(started_at) >= ClockElapsed

\* this step is the tick that takes the last second off the clock of a phase
RunsOut ==
    /\ pc \in {"work_listen2", "break_listen"}
    /\ get_ms_from_time(clock) = 1000
    /\ Acted = "None"
    /\ pc' # pc

\* the notification that ends the phase the session is in
SummaryOf == IF pc \in WorkPcs THEN "Pomodoro Break!" ELSE "Pomodoro Break Over"

\* C21: of the notifications since the last work period began, a work period
\* under way has none, a break under way the one break-ready of its work
\* period; a notification is fired only by the tick that takes the clock of a
\* phase to zero, and that tick fires exactly the one of its phase (shown
\* once, or the process dies in show()); a step that acts on a Quit or a
\* Reset in a phase fires none and starts no break, and after such a Quit
\* the session is at the menu, not back in a phase it had left
C21_OneNotificationPerCompletedPhase ==
    /\ [](/\ pc \in WorkPcs => sent = <<>>
          /\ pc \in BreakPcs => sent = <<"Pomodoro Break!">>
          /\ Len(sent) <= 2)
    /\ [][(sent' # sent /\ sent' # <<>>) => RunsOut]_vars
    /\ [][RunsOut =>
             \/ sent' = Append(sent, SummaryOf) /\ pc' # "panicked"
             \/ sent' = sent /\ pc' = "panicked"]_vars
    /\ [][(pc \in Listens /\ Acted \in {"Quit", "Reset"}) =>
             /\ pc' \notin BreakPcs
             /\ current_state' \in Breaks => current_state' = current_state
             /\ Acted = "Quit" => sent' = sent /\ pc' = "menu"
             /\ Acted = "Reset" => sent' = <<>> /\ pc' = "work_sleep"]_vars
    /\ [][(pc' \in BreakPcs /\ pc \notin BreakPcs) =>
             RunsOut /\ pc = "work_listen2"]_vars

\* the work period begun again by a Reset has run to zero and so has its
\* break: one break-ready and one break-over since it began, and the session
\* is at the menu with no command acted on since that Reset
C21_Witness ==
    /\ hist # <<>>
    /\ Entry.last = "Reset"
    /\ Entry.completed = Some(1)
    /\ current_order = Some(1)
    /\ pc = "menu"
    /\ get_ms_from_time(clock) = 0
    /\ sent = <<"Pomodoro Break!", "Pomodoro Break Over">>

\* C22: a Quit read at a menu ends the session whatever came before it:
\* init() finishes, and from there on no menu is shown, no command is read
\* and no phase is run
C22_QuitAtMenuEndsSession ==
    /\ [][(pc \in Menus /\ ReadsKey("q")) =>
             /\ pc' = "done"
             /\ UNCHANGED <<current_order, current_state, started_at, clock,
                            sent, ticks>>]_vars
    /\ [][pc = "done" =>
             UNCHANGED <<pc, stdin, current_order, current_state, started_at,
                         clock, sent, ticks>>]_vars

\* the session has ended on a Quit at the menu, after two pomodoros that ran
\* to the end of their breaks and a third work period that was left early
C22_Witness ==
    /\ hist # <<>>
    /\ pc = "done"
    /\ Entry.last = "Quit"
    /\ Entry.completed = Some(2)
    /\ current_order = Some(3)
    /\ current_state = "Working"
    /\ stdin = <<>>

====
